---- MODULE Spec2Model ----
(***************************************************************************)
(* A model of the Polymer viem plugin (src/src/index.ts): the plugin       *)
(* factory polymer(config), the convenience operation polymerProof, the    *)
(* direct API polymer.requestProof / queryProofStatus / wait, and the      *)
(* module-level functions requestProof, queryProofStatus and wait.         *)
(*                                                                         *)
(* A call runs synchronously up to its next await.  The awaits of the code *)
(* are the two fetch round trips and the setTimeout of the poll loop, so a *)
(* call is at one of: idle, awaitSubmit (log_requestProof in flight),      *)
(* awaitQuery (log_queryProof in flight), delaying (setTimeout pending),   *)
(* done (returned or threw).                                               *)
(*                                                                         *)
(* JavaScript values.  An optional field that is undefined is a field that *)
(* is absent from the record (Has).  A receipt's block number is           *)
(* [type |-> "number" | "bigint", val |-> n].  A logIndex is a JS number   *)
(* [floor |-> n, frac |-> 0 | 5], the number n + frac/10, so that 1.5 is   *)
(* [floor |-> 1, frac |-> 5] and is told apart from an integer.            *)
(***************************************************************************)
EXTENDS Integers, Sequences, FiniteSets, TLC

VARIABLES
    instance,       \* what polymer(config)(client) produced: the merged config, or a throw
    chain,          \* client.chain?.id as the client supplies it: [] or [id |-> n]
    pc,             \* pc[p]: where call p is suspended
    op,             \* op[p]: the API operation call p runs
    args,           \* args[p]: the arguments call p was made with
    frame,          \* frame[p]: the locals of call p that are live across its awaits
    trace,          \* trace[p]: the requests and timers call p has issued, in order
    submitResp,     \* submitResp[p]: the response to the log_requestProof of call p
    resp,           \* resp[p]: the response to the latest log_queryProof of call p
    nNonTerminal,   \* nNonTerminal[p]: status queries of call p answered pending/generating
    scanned,        \* scanned[p]: whether call p ran receipt.logs.findIndex
    console,        \* console[p]: lines call p wrote through its logger
    outcome         \* outcome[p]: the value call p returned or the Error it threw

vars ==
    <<instance, chain, pc, op, args, frame, trace, submitResp, resp, nNonTerminal, scanned,
      console, outcome>>

----------------------------------------------------------------------------
(* Bounds of the model *)

\* longest receipt.logs the inputs hold
MaxLogs == 3
\* largest per-call maxAttempts the inputs hold
MaxAttemptsArg == 3

----------------------------------------------------------------------------
(* JavaScript helpers *)

Has(o, f) == f \in DOMAIN o

\* { ...base, ...over }
Merge(base, over) ==
    [k \in DOMAIN base \cup DOMAIN over |-> IF k \in DOMAIN over THEN over[k] ELSE base[k]]

\* a JS number that is the integer n
Num(n) == [floor |-> n, frac |-> 0]

IsInteger(x) == x.frac = 0

\* mutant of Negative: the sign check is lost
NeverNegative(x) == FALSE

\* x < 0 for a JS number
Negative(x) == x.floor < 0

\* the empty record: an object with no field set
Empty == [k \in {} |-> TRUE]

----------------------------------------------------------------------------
(* Configuration: DEFAULT_CONFIG and polymer(config) *)

DEFAULT_MAX_ATTEMPTS == 20
DEFAULT_INTERVAL == 3000

DEFAULT_CONFIG ==
    [apiKey |-> "", maxAttempts |-> DEFAULT_MAX_ATTEMPTS,
     interval |-> DEFAULT_INTERVAL, debug |-> FALSE]

\* mutant of polymer: the key is not checked when the plugin is constructed
polymerUncheckedKey(config) == [threw |-> FALSE, config |-> Merge(DEFAULT_CONFIG, config)]

\* polymer(config)(client): merge over the defaults, throw on a falsy apiKey
polymer(config) ==
    LET polymerConfig == Merge(DEFAULT_CONFIG, config)
    IN  IF polymerConfig.apiKey = ""
        THEN [threw |-> TRUE, error |-> [msg |-> "Polymer API key is required"]]
        ELSE [threw |-> FALSE, config |-> polymerConfig]

\* logger.log / logger.error: n lines reach the console only when debug is set
createLogger(enabled, n) == IF enabled THEN n ELSE 0

----------------------------------------------------------------------------
(* Errors, as the code constructs them *)

ErrReceiptRequired == [msg |-> "Transaction receipt is required"]
ErrChainId         == [msg |-> "Chain ID not found in client"]
ErrSelector        == [msg |-> "eventSignature or logIndex is required"]
ErrNegative        == [msg |-> "logIndex must be non-negative"]
ErrEventNotFound(sig) == [msg |-> "Event not found in transaction receipt", event |-> sig]
ErrJobId           == [msg |-> "Job ID is required"]
ErrHttp(status)    == [msg |-> "HTTP error! status", status |-> status]
ErrApi(e)          == [msg |-> "Polymer API error", payload |-> e]
ErrFailed(reason)  == [msg |-> "Proof generation failed", reason |-> reason]
ErrTimedOut(n)     == [msg |-> "Proof generation timed out after", attempts |-> n]

Return(v) == [threw |-> FALSE, value |-> v]
Throw(e)  == [threw |-> TRUE, error |-> e]
Pending   == [pending |-> TRUE]

----------------------------------------------------------------------------
(* Log resolution: polymerProof, the selector checks and the receipt scan *)

\* viemKeccak256(toBytes(eventSignature)): the topic hash of an event signature
\* (the leading bytes of the real topics; distinct signatures, distinct hashes)
keccak256(sig) ==
    CASE sig = "Transfer(address,address,uint256)" -> "0xddf252ad"
      [] sig = "Approval(address,address,uint256)" -> "0x8c5be1e5"
      [] sig = "Deposit(address,uint256)"          -> "0xe1fffcc4"

\* log.topics[0] === eventTopic (topics[0] of a log without topics is undefined)
topicMatches(log, eventTopic) ==
    Len(log.topics) > 0 /\ log.topics[1] = eventTopic

RECURSIVE findIndexFrom(_, _, _)
findIndexFrom(logs, eventTopic, i) ==
    IF i > Len(logs) THEN -1
    ELSE IF topicMatches(logs[i], eventTopic) THEN i - 1
    ELSE findIndexFrom(logs, eventTopic, i + 1)

\* mutant of findIndex: the last matching log instead of the first
findLastIndex(logs, eventTopic) ==
    LET hits == {j \in 1..Len(logs) : topicMatches(logs[j], eventTopic)}
    IN  IF hits = {} THEN -1 ELSE (CHOOSE j \in hits : \A k \in hits : k <= j) - 1

\* receipt.logs.findIndex((log) => log.topics[0] === eventTopic): 0-based, -1 if none
findIndex(logs, eventTopic) == findIndexFrom(logs, eventTopic, 1)

\* !eventSignature
noSignature(options) == ~Has(options, "eventSignature") \/ options.eventSignature = ""

\* typeof providedLogIndex !== "number"
noLogIndex(options) == ~Has(options, "logIndex")

\* a result of the selector checks and the scan: the error thrown, or localLogIndex
Resolved(localLogIndex, didScan) ==
    [threw |-> FALSE, value |-> localLogIndex, scanned |-> didScan]

\* the scan by event signature
scanLogs(options) ==
    LET foundIndex == findIndex(options.receipt.logs, keccak256(options.eventSignature))
    IN  IF foundIndex = -1
        THEN Throw(ErrEventNotFound(options.eventSignature)) @@ [scanned |-> TRUE]
        ELSE Resolved(Num(foundIndex), TRUE)

\* mutant of resolveLogIndex: an event signature takes precedence over a logIndex
resolveLogIndexSignatureFirst(options) ==
    IF noSignature(options) /\ noLogIndex(options)
    THEN Throw(ErrSelector) @@ [scanned |-> FALSE]
    ELSE IF Has(options, "logIndex") /\ Negative(options.logIndex)
    THEN Throw(ErrNegative) @@ [scanned |-> FALSE]
    ELSE IF ~noSignature(options)
    THEN scanLogs(options)
    ELSE Resolved(options.logIndex, FALSE)

\* the two selector checks, then localLogIndex
resolveLogIndex(options) ==
    IF noSignature(options) /\ noLogIndex(options)
    THEN Throw(ErrSelector) @@ [scanned |-> FALSE]
    ELSE IF Has(options, "logIndex") /\ Negative(options.logIndex)
    THEN Throw(ErrNegative) @@ [scanned |-> FALSE]
    ELSE IF noLogIndex(options) /\ ~noSignature(options)
    THEN scanLogs(options)
    ELSE Resolved(options.logIndex, FALSE)

----------------------------------------------------------------------------
(* The wire: what a call sends, and what the service may answer *)

\* Number(srcBlockNumber) for a bigint, the number itself otherwise
toNumber(srcBlockNumber) == [type |-> "number", val |-> srcBlockNumber.val]

\* mutant of requestProofParams: the chain id and the transaction index swapped
requestProofParamsSwapped(srcChainId, srcBlockNumber, txIndex, localLogIndex) ==
    [method |-> "log_requestProof",
     params |-> <<txIndex, toNumber(srcBlockNumber), srcChainId, localLogIndex>>]

\* the body of the log_requestProof request
requestProofParams(srcChainId, srcBlockNumber, txIndex, localLogIndex) ==
    [method |-> "log_requestProof",
     params |-> <<srcChainId, toNumber(srcBlockNumber), txIndex, localLogIndex>>]

\* the body of the log_queryProof request
queryProofParams(jobId) == [method |-> "log_queryProof", params |-> <<jobId>>]

\* setTimeout(resolve, interval)
setTimeout(interval) == [method |-> "setTimeout", ms |-> interval]

HttpFail == [ok |-> FALSE, status |-> 500]
HttpOk(data) == [ok |-> TRUE, status |-> 200, data |-> data]

JobIds == {"job-1", ""}

SubmitResponses ==
    {HttpFail}
    \cup {HttpOk([error |-> "rpc-error"]), HttpOk([error |-> "rpc-error", result |-> "job-1"])}
    \cup {HttpOk([error |-> "", result |-> "job-1"])}
    \cup {HttpOk([result |-> j]) : j \in JobIds}

StatusObjects ==
    {[status |-> "pending"], [status |-> "generating"],
     [status |-> "complete", proof |-> "0xproof"],
     [status |-> "complete", proof |-> "0xproof", jobID |-> "job-1"],
     [status |-> "error", failureReason |-> "reason-1"],
     [status |-> "error", failureReason |-> ""],
     [status |-> "error"]}

QueryResponses ==
    {HttpFail, HttpOk([error |-> "rpc-error"])} \cup {HttpOk([result |-> s]) : s \in StatusObjects}

\* mutant of fetchResult: a result in the body wins over an error beside it
fetchResultPreferResult(response) ==
    IF ~response.ok THEN Throw(ErrHttp(response.status))
    ELSE IF Has(response.data, "result") THEN Return(response.data.result)
    ELSE Throw(ErrApi(response.data.error))

\* requestProof / queryProofStatus after the fetch: throw on !response.ok, throw on
\* a truthy data.error, otherwise data.result
fetchResult(response) ==
    IF ~response.ok THEN Throw(ErrHttp(response.status))
    ELSE IF Has(response.data, "error") /\ response.data.error # ""
    THEN Throw(ErrApi(response.data.error))
    ELSE Return(response.data.result)

----------------------------------------------------------------------------
(* The poll loop: wait *)

\* mutant of failureReasonOf: reads a field the status object does not carry
failureReasonOfWrongField(result) ==
    IF Has(result, "error") /\ result.error # "" THEN result.error ELSE "Unknown error"

\* result.failureReason || "Unknown error"
failureReasonOf(result) ==
    IF Has(result, "failureReason") /\ result.failureReason # ""
    THEN result.failureReason
    ELSE "Unknown error"

\* mutant of waitAfterQuery: the delay also follows the last attempt
waitAfterQueryTrailingDelay(result, attempt, maxAttempts) ==
    IF result.status = "complete" THEN [do |-> "return"]
    ELSE IF result.status = "error" THEN [do |-> "throw"]
    ELSE IF attempt <= maxAttempts THEN [do |-> "delay"]
    ELSE [do |-> "continue"]

\* mutant of waitAfterQuery: an exhausted loop returns the last status it saw
waitAfterQueryReturnLast(result, attempt, maxAttempts) ==
    IF result.status = "complete" THEN [do |-> "return"]
    ELSE IF result.status = "error" THEN [do |-> "throw"]
    ELSE IF attempt < maxAttempts THEN [do |-> "delay"]
    ELSE [do |-> "return"]

\* mutant of waitAfterQuery: after generating the next attempt follows at once
waitAfterQueryGeneratingNoDelay(result, attempt, maxAttempts) ==
    IF result.status = "complete" THEN [do |-> "return"]
    ELSE IF result.status = "error" THEN [do |-> "throw"]
    ELSE IF attempt < maxAttempts /\ result.status = "pending" THEN [do |-> "delay"]
    ELSE [do |-> "continue"]

\* mutant of waitAfterQuery: on the last attempt the loop gives up without looking
\* at the status
waitAfterQueryTimeoutFirst(result, attempt, maxAttempts) ==
    IF attempt >= maxAttempts THEN [do |-> "continue"]
    ELSE IF result.status = "complete" THEN [do |-> "return"]
    ELSE IF result.status = "error" THEN [do |-> "throw"]
    ELSE [do |-> "delay"]

\* the body of the loop after queryProofStatus resolved with result
waitAfterQuery(result, attempt, maxAttempts) ==
    IF result.status = "complete" THEN [do |-> "return"]
    ELSE IF result.status = "error" THEN [do |-> "throw"]
    ELSE IF attempt < maxAttempts THEN [do |-> "delay"]
    ELSE [do |-> "continue"]

\* mutant of waitLoopTest: the attempts of all calls are counted together
waitLoopTestSharedCounter(attempt, maxAttempts) ==
    LET sent == UNION {{<<q, i>> : i \in 1..Len(trace[q])} : q \in DOMAIN trace}
        queries == {x \in sent : trace[x[1]][x[2]].method = "log_queryProof"}
    IN  Cardinality(queries) + 1 <= maxAttempts

\* mutant of waitLoopTest: one iteration too many
waitLoopTestOffByOne(attempt, maxAttempts) == attempt <= maxAttempts + 1

\* the loop test: attempt <= maxAttempts
waitLoopTest(attempt, maxAttempts) == attempt <= maxAttempts

----------------------------------------------------------------------------
(* Steps: what a call does between two suspensions *)

\* the call is suspended at nextPc with locals f, having issued the requests emit
Suspend(nextPc, f, emit, lines) ==
    [pc |-> nextPc, frame |-> f, emit |-> emit, outcome |-> Pending, lines |-> lines]

\* the call ended with outcome o
Finish(f, o, lines) ==
    [pc |-> "done", frame |-> f, emit |-> <<>>, outcome |-> o, lines |-> lines]

\* wait from the top of an iteration with the counter at attempt: the next query,
\* or the throw after the loop
waitIterate(jobId, maxAttempts, interval, attempt, lines) ==
    LET f == [jobId |-> jobId, maxAttempts |-> maxAttempts,
              interval |-> interval, attempt |-> attempt]
    IN  IF waitLoopTest(attempt, maxAttempts)
        THEN Suspend("awaitQuery", f, <<queryProofParams(jobId)>>, lines + 2)
        ELSE Finish(f, Throw(ErrTimedOut(maxAttempts)), lines)

\* wait(config, jobId, maxAttempts, interval) up to its first suspension
waitEnter(jobId, maxAttempts, interval, lines) ==
    waitIterate(jobId, maxAttempts, interval, 1, lines + 1)

\* mutant of waitResume: rebuilds the status from its typed fields, dropping the rest
waitResumeTypedOnly(f, result) ==
    LET d == waitAfterQuery(result, f.attempt, f.maxAttempts)
    IN  CASE d.do = "return" ->
                Finish(f, Return([status |-> result.status, proof |-> result.proof]), 1)
          [] d.do = "throw" -> Finish(f, Throw(ErrFailed(failureReasonOf(result))), 0)
          [] d.do = "delay" -> Suspend("delaying", f, <<setTimeout(f.interval)>>, 1)
          [] d.do = "continue" ->
                waitIterate(f.jobId, f.maxAttempts, f.interval, f.attempt + 1, 0)

\* mutant of waitResume: the delay grows with the attempt
waitResumeBackoff(f, result) ==
    LET d == waitAfterQuery(result, f.attempt, f.maxAttempts)
    IN  CASE d.do = "return" -> Finish(f, Return(result), 1)
          [] d.do = "throw" -> Finish(f, Throw(ErrFailed(failureReasonOf(result))), 0)
          [] d.do = "delay" -> Suspend("delaying", f, <<setTimeout(f.interval * f.attempt)>>, 1)
          [] d.do = "continue" ->
                waitIterate(f.jobId, f.maxAttempts, f.interval, f.attempt + 1, 0)

\* wait resumed with the result of queryProofStatus
waitResume(f, result) ==
    LET d == waitAfterQuery(result, f.attempt, f.maxAttempts)
    IN  CASE d.do = "return" -> Finish(f, Return(result), 1)
          [] d.do = "throw" -> Finish(f, Throw(ErrFailed(failureReasonOf(result))), 0)
          [] d.do = "delay" -> Suspend("delaying", f, <<setTimeout(f.interval)>>, 1)
          [] d.do = "continue" ->
                waitIterate(f.jobId, f.maxAttempts, f.interval, f.attempt + 1, 0)

\* mutant of polymerProofEnter: a per-call 0 falls back to the configured value,
\* as with maxAttempts || polymerConfig.maxAttempts
polymerProofEnterFalsyFallback(options, client, config) ==
    LET maxAttempts == IF Has(options, "maxAttempts") /\ options.maxAttempts # 0
                       THEN options.maxAttempts ELSE config.maxAttempts
        interval == IF Has(options, "interval") /\ options.interval # 0
                    THEN options.interval ELSE config.interval
        returnJob == Has(options, "returnJob") /\ options.returnJob
    IN  IF ~Has(options, "receipt") THEN Finish(Empty, Throw(ErrReceiptRequired), 0)
        ELSE IF ~Has(client, "id") \/ client.id = 0
        THEN Finish(Empty, Throw(ErrChainId), 0)
        ELSE LET r == resolveLogIndex(options)
             IN  IF r.threw THEN Finish(Empty, Throw(r.error), 0)
                 ELSE Suspend("awaitSubmit",
                              [receipt |-> options.receipt, maxAttempts |-> maxAttempts,
                               interval |-> interval, returnJob |-> returnJob],
                              <<requestProofParams(client.id, options.receipt.blockNumber,
                                                   options.receipt.transactionIndex,
                                                   r.value)>>,
                              2)

\* mutant of polymerProofEnter: a client without a chain is taken to be on chain 1
polymerProofEnterDefaultChain(options, client, config) ==
    LET maxAttempts == IF Has(options, "maxAttempts")
                       THEN options.maxAttempts ELSE config.maxAttempts
        interval == IF Has(options, "interval")
                    THEN options.interval ELSE config.interval
        returnJob == Has(options, "returnJob") /\ options.returnJob
        chainId == IF Has(client, "id") THEN client.id ELSE 1
    IN  IF ~Has(options, "receipt") THEN Finish(Empty, Throw(ErrReceiptRequired), 0)
        ELSE IF chainId = 0 THEN Finish(Empty, Throw(ErrChainId), 0)
        ELSE LET r == resolveLogIndex(options)
             IN  IF r.threw THEN Finish(Empty, Throw(r.error), 0)
                 ELSE Suspend("awaitSubmit",
                              [receipt |-> options.receipt, maxAttempts |-> maxAttempts,
                               interval |-> interval, returnJob |-> returnJob],
                              <<requestProofParams(chainId, options.receipt.blockNumber,
                                                   options.receipt.transactionIndex,
                                                   r.value)>>,
                              2)

\* polymerProof up to its first suspension
polymerProofEnter(options, client, config) ==
    LET maxAttempts == IF Has(options, "maxAttempts")
                       THEN options.maxAttempts ELSE config.maxAttempts
        interval == IF Has(options, "interval")
                    THEN options.interval ELSE config.interval
        returnJob == Has(options, "returnJob") /\ options.returnJob
    IN  IF ~Has(options, "receipt") THEN Finish(Empty, Throw(ErrReceiptRequired), 0)
        ELSE IF ~Has(client, "id") \/ client.id = 0
        THEN Finish(Empty, Throw(ErrChainId), 0)
        ELSE LET r == resolveLogIndex(options)
             IN  IF r.threw THEN Finish(Empty, Throw(r.error), 0)
                 ELSE Suspend("awaitSubmit",
                              [receipt |-> options.receipt, maxAttempts |-> maxAttempts,
                               interval |-> interval, returnJob |-> returnJob],
                              <<requestProofParams(client.id, options.receipt.blockNumber,
                                                   options.receipt.transactionIndex,
                                                   r.value)>>,
                              2)

\* mutant of polymerProofResume: returnJob is ignored
polymerProofResumeAlwaysWait(f, jobId) == waitEnter(jobId, f.maxAttempts, f.interval, 1)

\* mutant of polymerProofResume: the loop polls a handle of its own making
polymerProofResumeOtherHandle(f, jobId) ==
    IF f.returnJob
    THEN Finish(f, Return([jobId |-> jobId, receipt |-> f.receipt]), 1)
    ELSE waitEnter("job-0", f.maxAttempts, f.interval, 1)

\* polymerProof resumed with the jobId requestProof returned
polymerProofResume(f, jobId) ==
    IF f.returnJob
    THEN Finish(f, Return([jobId |-> jobId, receipt |-> f.receipt]), 1)
    ELSE waitEnter(jobId, f.maxAttempts, f.interval, 1)

\* mutant of polymerWaitEnter: with debug set, a log line of the call throws
polymerWaitEnterLogThrows(jobId, policy, config) ==
    IF jobId = "" THEN Finish(Empty, Throw(ErrJobId), 0)
    ELSE IF config.debug THEN Finish(Empty, Throw([msg |-> "console.log failed"]), 0)
    ELSE waitEnter(jobId,
                   IF Has(policy, "maxAttempts") /\ policy.maxAttempts # 0
                   THEN policy.maxAttempts ELSE config.maxAttempts,
                   IF Has(policy, "interval") /\ policy.interval # 0
                   THEN policy.interval ELSE config.interval,
                   0)

\* mutant of polymerWaitEnter: the handle is not checked
polymerWaitEnterUnchecked(jobId, policy, config) ==
    waitEnter(jobId,
              IF Has(policy, "maxAttempts") /\ policy.maxAttempts # 0
              THEN policy.maxAttempts ELSE config.maxAttempts,
              IF Has(policy, "interval") /\ policy.interval # 0
              THEN policy.interval ELSE config.interval,
              0)

\* polymer.wait(jobId, maxAttempts, interval) up to its first suspension
polymerWaitEnter(jobId, policy, config) ==
    IF jobId = "" THEN Finish(Empty, Throw(ErrJobId), 0)
    ELSE waitEnter(jobId,
                   IF Has(policy, "maxAttempts") /\ policy.maxAttempts # 0
                   THEN policy.maxAttempts ELSE config.maxAttempts,
                   IF Has(policy, "interval") /\ policy.interval # 0
                   THEN policy.interval ELSE config.interval,
                   0)

\* mutant of polymerQueryEnter: a status already returned for the handle is reused
polymerQueryEnterCached(jobId) ==
    LET known == {q \in DOMAIN pc :
                     /\ op[q] = "queryProofStatus" /\ pc[q] = "done"
                     /\ ~outcome[q].threw /\ frame[q] = [jobId |-> jobId]}
    IN  IF jobId = "" THEN Finish(Empty, Throw(ErrJobId), 0)
        ELSE IF known # {}
        THEN Finish([jobId |-> jobId], outcome[CHOOSE q \in known : TRUE], 0)
        ELSE Suspend("awaitQuery", [jobId |-> jobId], <<queryProofParams(jobId)>>, 1)

\* polymer.queryProofStatus(jobId) up to its suspension
polymerQueryEnter(jobId) ==
    IF jobId = "" THEN Finish(Empty, Throw(ErrJobId), 0)
    ELSE Suspend("awaitQuery", [jobId |-> jobId], <<queryProofParams(jobId)>>, 1)

\* polymer.requestProof(params) up to its suspension
polymerRequestEnter(params) ==
    Suspend("awaitSubmit", Empty,
            <<requestProofParams(params.srcChainId, params.srcBlockNumber,
                                 params.txIndex, params.logIndex)>>,
            1)

----------------------------------------------------------------------------
(* Actions *)

Procs == DOMAIN pc

ready == ~instance.threw

\* call p takes the step s
Take(p, s) ==
    /\ pc' = [pc EXCEPT ![p] = s.pc]
    /\ frame' = [frame EXCEPT ![p] = s.frame]
    /\ trace' = [trace EXCEPT ![p] = @ \o s.emit]
    /\ outcome' = [outcome EXCEPT ![p] = s.outcome]
    /\ console' = [console EXCEPT ![p] = @ + createLogger(instance.config.debug, s.lines)]

\* client.polymerProof(options)
PolymerProofCall(p, options) ==
    /\ ready /\ pc[p] = "idle"
    /\ op' = [op EXCEPT ![p] = "polymerProof"]
    /\ args' = [args EXCEPT ![p] = options]
    /\ Take(p, polymerProofEnter(options, chain, instance.config))
    /\ scanned' = [scanned EXCEPT ![p] =
                      /\ Has(options, "receipt")
                      /\ Has(chain, "id") /\ chain.id # 0
                      /\ resolveLogIndex(options).scanned]
    /\ UNCHANGED <<instance, chain, submitResp, resp, nNonTerminal>>

\* client.polymer.requestProof(params)
RequestProofCall(p, params) ==
    /\ ready /\ pc[p] = "idle"
    /\ op' = [op EXCEPT ![p] = "requestProof"]
    /\ args' = [args EXCEPT ![p] = params]
    /\ Take(p, polymerRequestEnter(params))
    /\ UNCHANGED <<instance, chain, submitResp, resp, nNonTerminal, scanned>>

\* client.polymer.queryProofStatus(jobId)
QueryProofStatusCall(p, jobId) ==
    /\ ready /\ pc[p] = "idle"
    /\ op' = [op EXCEPT ![p] = "queryProofStatus"]
    /\ args' = [args EXCEPT ![p] = [jobId |-> jobId]]
    /\ Take(p, polymerQueryEnter(jobId))
    /\ UNCHANGED <<instance, chain, submitResp, resp, nNonTerminal, scanned>>

\* client.polymer.wait(jobId, maxAttempts, interval)
WaitCall(p, jobId, a) ==
    /\ ready /\ pc[p] = "idle"
    /\ op' = [op EXCEPT ![p] = "wait"]
    /\ args' = [args EXCEPT ![p] = [jobId |-> jobId] @@ a]
    /\ Take(p, polymerWaitEnter(jobId, a, instance.config))
    /\ UNCHANGED <<instance, chain, submitResp, resp, nNonTerminal, scanned>>

\* mutant of requestProofResume: a failed request is sent once more
requestProofResumeRetry(opName, f, response) ==
    LET r == fetchResult(response)
    IN  IF r.threw /\ ~Has(f, "retried")
        THEN Suspend("awaitSubmit", f @@ [retried |-> TRUE],
                     <<[method |-> "log_requestProof", params |-> <<>>]>>, 1)
        ELSE IF r.threw THEN Finish(f, r, 1)
        ELSE IF opName = "requestProof" THEN Finish(f, r, 0)
        ELSE polymerProofResume(f, r.value)

\* requestProof after its fetch resolved with response, and its caller after it
requestProofResume(opName, f, response) ==
    LET r == fetchResult(response)
    IN  IF r.threw THEN Finish(f, r, 1)
        ELSE IF opName = "requestProof" THEN Finish(f, r, 0)
        ELSE polymerProofResume(f, r.value)

\* mutant of queryProofStatusResume: the loop takes a failed query for a
\* non-terminal answer and tries again
queryProofStatusResumeRetry(opName, f, response) ==
    LET r == fetchResult(response)
    IN  IF r.threw /\ opName # "queryProofStatus" /\ f.attempt < f.maxAttempts
        THEN Suspend("delaying", f, <<setTimeout(f.interval)>>, 1)
        ELSE IF r.threw THEN Finish(f, r, 1)
        ELSE IF opName = "queryProofStatus" THEN Finish(f, r, 0)
        ELSE waitResume(f, r.value)

\* queryProofStatus after its fetch resolved with response, and its caller after it
queryProofStatusResume(opName, f, response) ==
    LET r == fetchResult(response)
    IN  IF r.threw THEN Finish(f, r, 1)
        ELSE IF opName = "queryProofStatus" THEN Finish(f, r, 0)
        ELSE waitResume(f, r.value)

\* the service answers the log_requestProof of call p
SubmitResponse(p, response) ==
    /\ pc[p] = "awaitSubmit"
    /\ submitResp' = [submitResp EXCEPT ![p] = response]
    /\ Take(p, requestProofResume(op[p], frame[p], response))
    /\ UNCHANGED <<instance, chain, op, args, resp, nNonTerminal, scanned>>

\* a status the loop keeps polling on
NonTerminal(response) ==
    /\ ~fetchResult(response).threw
    /\ fetchResult(response).value.status \in {"pending", "generating"}

\* the service answers the log_queryProof of call p
QueryResponse(p, response) ==
    /\ pc[p] = "awaitQuery"
    /\ resp' = [resp EXCEPT ![p] = response]
    /\ nNonTerminal' = [nNonTerminal EXCEPT ![p] = IF NonTerminal(response) THEN @ + 1 ELSE @]
    /\ Take(p, queryProofStatusResume(op[p], frame[p], response))
    /\ UNCHANGED <<instance, chain, op, args, submitResp, scanned>>

\* the timer of call p fires: attempt++ and the next iteration
DelayElapsed(p) ==
    /\ pc[p] = "delaying"
    /\ Take(p, waitIterate(frame[p].jobId, frame[p].maxAttempts, frame[p].interval,
                           frame[p].attempt + 1, 0))
    /\ UNCHANGED <<instance, chain, op, args, submitResp, resp, nNonTerminal, scanned>>

----------------------------------------------------------------------------
(* Inputs *)

\* an optional field: absent, or set to a value of S
Opt(field, S) == {Empty} \cup {(field :> v) : v \in S}

UserConfigs ==
    {Empty, [apiKey |-> ""], [apiKey |-> "pk-test"], [apiKey |-> "pk-test", debug |-> TRUE],
     [apiKey |-> "pk-test", maxAttempts |-> 2, interval |-> 5]}

Chains == {Empty, [id |-> 0], [id |-> 11155420]}

Signatures ==
    {"Transfer(address,address,uint256)", "Approval(address,address,uint256)",
     "Deposit(address,uint256)"}

Logs ==
    {[topics |-> <<>>], [topics |-> <<"0xddf252ad">>],
     [topics |-> <<"0x8c5be1e5", "0xddf252ad">>]}

LogSeqs == UNION {[1..k -> Logs] : k \in 0..MaxLogs}

BlockNumbers == {[type |-> "number", val |-> 12345], [type |-> "bigint", val |-> 12345]}

Receipts(blocks, logSeqs) ==
    {[blockNumber |-> b, transactionIndex |-> 3, logs |-> l] : b \in blocks, l \in logSeqs}

OnePointFive == [floor |-> 1, frac |-> 5]

LogIndexes == {Num(-1), Num(0), Num(1), OnePointFive, Num(MaxLogs)}

Selectors ==
    {s @@ l : s \in Opt("eventSignature", Signatures \cup {""}), l \in Opt("logIndex", LogIndexes)}

\* the per-call poll policy: maxAttempts and interval, each optional
PollArgs ==
    {a @@ i : a \in Opt("maxAttempts", -1..MaxAttemptsArg), i \in Opt("interval", {0, 7})}

\* polymerProof options that exercise submit and the poll loop
PollOptions ==
    {r @@ s @@ a @@ j :
        r \in Opt("receipt", Receipts(BlockNumbers, {<<[topics |-> <<"0xddf252ad">>]>>})),
        s \in {Empty, [eventSignature |-> "Transfer(address,address,uint256)"],
               [logIndex |-> Num(0)]},
        a \in PollArgs,
        j \in Opt("returnJob", {TRUE})}

\* polymerProof options that exercise the selector checks and the receipt scan
ResolveOptions ==
    {r @@ s @@ a :
        r \in Opt("receipt", Receipts({[type |-> "bigint", val |-> 12345]}, LogSeqs)),
        s \in Selectors,
        a \in {[returnJob |-> TRUE], [maxAttempts |-> 2]}}

\* two handles, for two polls at once
Handles == {"job-1", "job-2"}

\* the poll policies of two polls at once
ConcurrentPollArgs == {[maxAttempts |-> m] : m \in 1..MaxAttemptsArg}

RequestParams ==
    [srcChainId : {11155420, -1}, srcBlockNumber : BlockNumbers, txIndex : {3},
     logIndex : {Num(0), Num(-1), OnePointFive}]

----------------------------------------------------------------------------
(* Specifications *)

\* the state after polymer(config)(client), with the calls of ps not yet made
InitWith(configs, ps) ==
    /\ instance \in {polymer(c) : c \in configs}
    /\ chain \in Chains
    /\ pc = [p \in ps |-> "idle"]
    /\ op = [p \in ps |-> "none"]
    /\ args = [p \in ps |-> Empty]
    /\ frame = [p \in ps |-> Empty]
    /\ trace = [p \in ps |-> <<>>]
    /\ submitResp = [p \in ps |-> Empty]
    /\ resp = [p \in ps |-> Empty]
    /\ nNonTerminal = [p \in ps |-> 0]
    /\ scanned = [p \in ps |-> FALSE]
    /\ console = [p \in ps |-> 0]
    /\ outcome = [p \in ps |-> Pending]

\* the service answers, a timer fires
Submitted ==
    \E p \in Procs :
        pc[p] = "awaitSubmit" /\ \E response \in SubmitResponses : SubmitResponse(p, response)
Queried ==
    \E p \in Procs :
        pc[p] = "awaitQuery" /\ \E response \in QueryResponses : QueryResponse(p, response)
Delayed == \E p \in Procs : DelayElapsed(p)

Init == InitWith(UserConfigs, {1})

\* call p has not been made yet
Idle(p) == pc[p] = "idle"

CallPolymerProof ==
    \E p \in Procs : Idle(p) /\ \E options \in PollOptions : PolymerProofCall(p, options)
CallRequestProof ==
    \E p \in Procs : Idle(p) /\ \E params \in RequestParams : RequestProofCall(p, params)
CallQueryProofStatus ==
    \E p \in Procs : Idle(p) /\ \E jobId \in JobIds : QueryProofStatusCall(p, jobId)
CallWait ==
    \E p \in Procs : Idle(p) /\ \E jobId \in JobIds, a \in PollArgs : WaitCall(p, jobId, a)

Next ==
    \/ CallPolymerProof
    \/ CallRequestProof
    \/ CallQueryProofStatus
    \/ CallWait
    \/ Submitted
    \/ Queried
    \/ Delayed

\* one call of any operation, every answer of the service
Spec == Init /\ [][Next]_vars

\* Spec where every status query is answered and every timer fires
FairSpec == Spec /\ WF_vars(Queried) /\ WF_vars(Delayed)

InitResolve == InitWith({[apiKey |-> "pk-test"]}, {1})

ResolvePolymerProof ==
    \E p \in Procs : Idle(p) /\ \E options \in ResolveOptions : PolymerProofCall(p, options)

NextResolve ==
    \/ ResolvePolymerProof
    \/ Submitted
    \/ Queried
    \/ Delayed

\* one call of polymerProof over every receipt and selector
ResolveSpec == InitResolve /\ [][NextResolve]_vars

\* the ids a call may have in any specification
CallIds == {1, 2}

InitQuery == InitWith({[apiKey |-> "pk-test"]}, CallIds)

NextQuery ==
    \/ CallQueryProofStatus
    \/ Queried

\* two calls of polymer.queryProofStatus, one after the other or overlapping
QuerySpec == InitQuery /\ [][NextQuery]_vars

InitPoll == InitWith({[apiKey |-> "pk-test"]}, CallIds)

\* a polymer.wait on a handle no other call is using
CallWaitDistinct ==
    \E p \in Procs :
        /\ Idle(p)
        /\ \E jobId \in Handles, a \in ConcurrentPollArgs :
              /\ \A q \in Procs \ {p} : Has(args[q], "jobId") => args[q].jobId # jobId
              /\ WaitCall(p, jobId, a)

NextPoll ==
    \/ CallWaitDistinct
    \/ Queried
    \/ Delayed

\* two calls of polymer.wait on distinct handles, their steps interleaved
PollSpec == InitPoll /\ [][NextPoll]_vars

\* A pair of runs of one call: run 1 on an instance with debug = false, run 2 on
\* an instance with debug = true and otherwise the same configuration; both are
\* given the same arguments, and the service gives both the same answers.

\* the configuration of run p
DebugConfig(p) == [instance.config EXCEPT !.debug = (p = 2)]

\* run p stays where it is
Stay(p) == [pc |-> pc[p], frame |-> frame[p], emit |-> <<>>, outcome |-> outcome[p], lines |-> 0]

\* every run p takes the step S[p]
TakeAll(S) ==
    /\ pc' = [p \in Procs |-> S[p].pc]
    /\ frame' = [p \in Procs |-> S[p].frame]
    /\ trace' = [p \in Procs |-> trace[p] \o S[p].emit]
    /\ outcome' = [p \in Procs |-> S[p].outcome]
    /\ console' = [p \in Procs |-> console[p] + createLogger(DebugConfig(p).debug, S[p].lines)]

\* both runs make the same call
CallAll(opName, a, S) ==
    /\ \A p \in Procs : Idle(p)
    /\ op' = [p \in Procs |-> opName]
    /\ args' = [p \in Procs |-> a]
    /\ TakeAll(S)
    /\ UNCHANGED <<instance, chain, submitResp, resp, nNonTerminal>>

PairPolymerProof ==
    /\ \A p \in Procs : Idle(p)
    /\ \E options \in PollOptions :
          /\ CallAll("polymerProof", options,
                     [p \in Procs |-> polymerProofEnter(options, chain, DebugConfig(p))])
          /\ scanned' = [p \in Procs |->
                            /\ Has(options, "receipt")
                            /\ Has(chain, "id") /\ chain.id # 0
                            /\ resolveLogIndex(options).scanned]

PairRequestProof ==
    /\ \A p \in Procs : Idle(p)
    /\ \E params \in RequestParams :
          CallAll("requestProof", params, [p \in Procs |-> polymerRequestEnter(params)])
    /\ UNCHANGED scanned

PairQueryProofStatus ==
    /\ \A p \in Procs : Idle(p)
    /\ \E jobId \in JobIds :
          CallAll("queryProofStatus", [jobId |-> jobId],
                  [p \in Procs |-> polymerQueryEnter(jobId)])
    /\ UNCHANGED scanned

PairWait ==
    /\ \A p \in Procs : Idle(p)
    /\ \E jobId \in JobIds, a \in PollArgs :
          CallAll("wait", [jobId |-> jobId] @@ a,
                  [p \in Procs |-> polymerWaitEnter(jobId, a, DebugConfig(p))])
    /\ UNCHANGED scanned

\* the service gives the same answer to the proof request of each run
PairSubmitted ==
    /\ \E p \in Procs : pc[p] = "awaitSubmit"
    /\ \E response \in SubmitResponses :
          /\ submitResp' =
                 [p \in Procs |-> IF pc[p] = "awaitSubmit" THEN response ELSE submitResp[p]]
          /\ TakeAll([p \in Procs |->
                         IF pc[p] = "awaitSubmit"
                         THEN requestProofResume(op[p], frame[p], response) ELSE Stay(p)])
    /\ UNCHANGED <<instance, chain, op, args, resp, nNonTerminal, scanned>>

\* the service gives the same answer to the status query of each run
PairQueried ==
    /\ \E p \in Procs : pc[p] = "awaitQuery"
    /\ \E response \in QueryResponses :
          /\ resp' = [p \in Procs |-> IF pc[p] = "awaitQuery" THEN response ELSE resp[p]]
          /\ nNonTerminal' =
                 [p \in Procs |->
                     IF pc[p] = "awaitQuery" /\ NonTerminal(response)
                     THEN nNonTerminal[p] + 1 ELSE nNonTerminal[p]]
          /\ TakeAll([p \in Procs |->
                         IF pc[p] = "awaitQuery"
                         THEN queryProofStatusResume(op[p], frame[p], response) ELSE Stay(p)])
    /\ UNCHANGED <<instance, chain, op, args, submitResp, scanned>>

\* the timer of each run fires
PairDelayed ==
    /\ \E p \in Procs : pc[p] = "delaying"
    /\ TakeAll([p \in Procs |->
                   IF pc[p] = "delaying"
                   THEN waitIterate(frame[p].jobId, frame[p].maxAttempts, frame[p].interval,
                                    frame[p].attempt + 1, 0)
                   ELSE Stay(p)])
    /\ UNCHANGED <<instance, chain, op, args, submitResp, resp, nNonTerminal, scanned>>

InitDebug == InitWith({[apiKey |-> "pk-test"]}, CallIds)

NextDebug ==
    \/ PairPolymerProof
    \/ PairRequestProof
    \/ PairQueryProofStatus
    \/ PairWait
    \/ PairSubmitted
    \/ PairQueried
    \/ PairDelayed

\* one call of any operation, run without and with debug on the same answers
DebugSpec == InitDebug /\ [][NextDebug]_vars

\* A pair of runs that differ only in which non-terminal status the service
\* reports: whenever run 1 is answered pending or generating, run 2 is answered
\* pending or generating too, not necessarily the same; every other answer is
\* the same for both.

\* the answers r1 and r2 are the same up to the non-terminal status they report
Twin(r1, r2) == r1 = r2 \/ (NonTerminal(r1) /\ NonTerminal(r2))

\* the service answers the status query of each run, with twin answers
PairQueriedTwin ==
    /\ \A p \in Procs : pc[p] = "awaitQuery"
    /\ \E r1 \in QueryResponses :
          \E r2 \in {r \in QueryResponses : Twin(r1, r)} :
              LET answer == [p \in Procs |-> IF p = 1 THEN r1 ELSE r2]
              IN  /\ resp' = answer
                  /\ nNonTerminal' =
                         [p \in Procs |->
                             IF NonTerminal(answer[p])
                             THEN nNonTerminal[p] + 1 ELSE nNonTerminal[p]]
                  /\ TakeAll([p \in Procs |->
                                 queryProofStatusResume(op[p], frame[p], answer[p])])
    /\ UNCHANGED <<instance, chain, op, args, submitResp, scanned>>

InitTwin == InitWith({[apiKey |-> "pk-test"]}, CallIds)

NextTwin ==
    \/ PairPolymerProof
    \/ PairWait
    \/ PairSubmitted
    \/ PairQueriedTwin
    \/ PairDelayed

\* one poll, run on two answer sequences that differ in pending / generating only
TwinSpec == InitTwin /\ [][NextTwin]_vars

----------------------------------------------------------------------------
(* Observations on a call *)

\* how many entries of a trace are of the given method
Count(seq, method) == Cardinality({i \in 1..Len(seq) : seq[i].method = method})

\* round trips and timers of call p so far
Submits(p) == Count(trace[p], "log_requestProof")
Queries(p) == Count(trace[p], "log_queryProof")
Delays(p)  == Count(trace[p], "setTimeout")

\* call p has entered wait(): its frame is that of the poll loop
Polled(p) == Has(frame[p], "attempt")

\* resp[p] is the answer to the latest status query of call p
Answered(p) == Queries(p) >= 1 /\ pc[p] \in {"delaying", "done"}

\* the latest status query of call p was answered with a status object of this state
AnsweredWith(p, states) ==
    /\ Answered(p)
    /\ resp[p].ok
    /\ Has(resp[p].data, "result") /\ ~Has(resp[p].data, "error")
    /\ resp[p].data.result.status \in states

\* the latest status query of call p failed: HTTP status or error envelope
QueryFailed(p) ==
    Answered(p) /\ (~resp[p].ok \/ Has(resp[p].data, "error"))

Returned(p) == pc[p] = "done" /\ ~outcome[p].threw
Threw(p)    == pc[p] = "done" /\ outcome[p].threw
ThrewMsg(p, msg) == Threw(p) /\ outcome[p].error.msg = msg

----------------------------------------------------------------------------
(* C1 *)

\* C1: in the poll loop, when the first k-1 status queries were answered with a
\* non-terminal status and the k-th with complete (k <= maxAttempts), wait returns
\* exactly the k-th status object, after exactly k queries and k-1 delays.
C1_CompleteAtK ==
    \A p \in Procs :
        (Polled(p) /\ AnsweredWith(p, {"complete"})) =>
            /\ Returned(p)
            /\ outcome[p].value = resp[p].data.result
            /\ nNonTerminal[p] + 1 <= frame[p].maxAttempts
            /\ Queries(p) = nNonTerminal[p] + 1
            /\ Delays(p) = nNonTerminal[p]

\* the spec's case: two non-terminal answers, then complete, with attempts to spare
C1_Witness ==
    \E p \in Procs :
        /\ Polled(p) /\ AnsweredWith(p, {"complete"})
        /\ nNonTerminal[p] = 2 /\ frame[p].maxAttempts > 3
        /\ Has(outcome[p].value, "jobID")

----------------------------------------------------------------------------
(* C2 *)

\* C2: for maxAttempts >= 1, when maxAttempts consecutive status queries were
\* answered with non-terminal statuses, wait throws "timed out after maxAttempts",
\* after exactly maxAttempts queries and maxAttempts-1 delays: no trailing delay.
C2_TimedOutAtMax ==
    \A p \in Procs :
        (Polled(p) /\ frame[p].maxAttempts >= 1 /\ nNonTerminal[p] = frame[p].maxAttempts) =>
            /\ Threw(p)
            /\ outcome[p].error = ErrTimedOut(frame[p].maxAttempts)
            /\ Queries(p) = frame[p].maxAttempts
            /\ Delays(p) = frame[p].maxAttempts - 1
            /\ trace[p][Len(trace[p])].method = "log_queryProof"

\* the spec's case: three non-terminal answers with maxAttempts = 3
C2_Witness ==
    \E p \in Procs :
        /\ Polled(p) /\ frame[p].maxAttempts = 3 /\ nNonTerminal[p] = 3
        /\ ThrewMsg(p, "Proof generation timed out after")

----------------------------------------------------------------------------
(* C3 *)

\* C3: when the first k-1 status queries were answered with a non-terminal status
\* and the k-th with error, wait throws "Proof generation failed" carrying the
\* failureReason of that k-th status ("Unknown error" stands in for a reason that
\* is absent or empty), after exactly k queries, and sends and schedules nothing more.
C3_FailedAtK ==
    \A p \in Procs :
        (Polled(p) /\ AnsweredWith(p, {"error"})) =>
            LET result == resp[p].data.result
                reported == Has(result, "failureReason") /\ result.failureReason # ""
            IN  /\ ThrewMsg(p, "Proof generation failed")
                /\ reported => outcome[p].error.reason = result.failureReason
                /\ ~reported => outcome[p].error.reason = "Unknown error"
                /\ Queries(p) = nNonTerminal[p] + 1
                /\ Delays(p) = nNonTerminal[p]
                /\ trace[p][Len(trace[p])].method = "log_queryProof"

\* the spec's case: pending, then error with a reason
C3_Witness ==
    \E p \in Procs :
        /\ Polled(p) /\ AnsweredWith(p, {"error"})
        /\ nNonTerminal[p] = 1 /\ Queries(p) = 2
        /\ outcome[p].error.reason = "reason-1"

----------------------------------------------------------------------------
(* C4 *)

\* C4: whenever wait returns normally, the returned value is the status object the
\* service last reported and its state is complete; a call of wait whose last
\* answer was not complete, or that got no answer, ends by throwing.
C4_NoDegradedValue ==
    \A p \in Procs :
        (Polled(p) /\ pc[p] = "done") =>
            /\ Returned(p) =>
                  /\ AnsweredWith(p, {"complete"})
                  /\ outcome[p].value = resp[p].data.result
                  /\ outcome[p].value.status = "complete"
            /\ ~AnsweredWith(p, {"complete"}) => Threw(p)

\* a run that returned complete after a non-terminal answer
C4_Witness ==
    \E p \in Procs :
        /\ Polled(p) /\ Returned(p) /\ nNonTerminal[p] >= 1
        /\ outcome[p].value.status = "complete"

----------------------------------------------------------------------------
(* C5 *)

\* the three ways the poll loop is meant to end
PollOutcome(p) ==
    \/ Returned(p) /\ outcome[p].value.status = "complete"
    \/ ThrewMsg(p, "Proof generation failed")
    \/ ThrewMsg(p, "Proof generation timed out after")

\* the loop of call p never issues more than maxAttempts status queries, and a
\* finished loop whose queries were all answered with a status ended in one of the
\* three ways
PollCapped(p) ==
    Polled(p) =>
        /\ Queries(p) <= (IF frame[p].maxAttempts > 0 THEN frame[p].maxAttempts ELSE 0)
        /\ (pc[p] = "done" /\ ~QueryFailed(p)) => PollOutcome(p)

\* C5: wait issues at most maxAttempts status queries in every run and, when every
\* status query is answered and every delay elapses, it terminates; when the
\* answers were all statuses it ends with completion, "Proof generation failed"
\* or "Proof generation timed out".
C5_CappedAndTerminates ==
    \A p \in CallIds :
        /\ [](p \in Procs => PollCapped(p))
        /\ [](p \in Procs /\ Polled(p) => <>(p \in Procs /\ pc[p] = "done"))

\* a loop that used all of its attempts, with the default maxAttempts
C5_Witness ==
    \E p \in Procs :
        /\ Polled(p) /\ pc[p] = "done"
        /\ frame[p].maxAttempts = DEFAULT_MAX_ATTEMPTS
        /\ Queries(p) = DEFAULT_MAX_ATTEMPTS
        /\ PollOutcome(p)

----------------------------------------------------------------------------
(* C6 *)

\* call p is a polymerProof that got past the receipt and chain id checks
Validating(p) ==
    /\ op[p] = "polymerProof"
    /\ Has(args[p], "receipt")
    /\ Has(chain, "id") /\ chain.id # 0

\* call p selects its log by event signature alone
BySignature(p) ==
    /\ Validating(p)
    /\ ~Has(args[p], "logIndex")
    /\ Has(args[p], "eventSignature") /\ args[p].eventSignature # ""

\* the 0-based positions of the logs of call p's receipt whose leading topic is
\* the topic hash of its event signature
Matches(p) ==
    LET logs == args[p].receipt.logs
    IN  {i \in 0..(Len(logs) - 1) :
            /\ logs[i + 1].topics # <<>>
            /\ Head(logs[i + 1].topics) = keccak256(args[p].eventSignature)}

\* the least element of a non-empty set of numbers
Least(S) == CHOOSE i \in S : \A j \in S : i <= j

\* call p sent a proof request, and that request carries this log index
SubmittedLogIndex(p, x) ==
    /\ Len(trace[p]) >= 1
    /\ trace[p][1].method = "log_requestProof"
    /\ trace[p][1].params[4] = x

\* C6: with an eventSignature and no logIndex, polymerProof submits the lowest
\* position of a log whose leading topic is the signature's topic hash, and it
\* throws "Event ... not found" exactly when there is no such log, having sent
\* nothing.
C6_FirstMatchOrNotFound ==
    \A p \in Procs :
        BySignature(p) =>
            IF Matches(p) = {}
            THEN /\ ThrewMsg(p, "Event not found in transaction receipt")
                 /\ outcome[p].error.event = args[p].eventSignature
                 /\ trace[p] = <<>>
            ELSE /\ ~ThrewMsg(p, "Event not found in transaction receipt")
                 /\ SubmittedLogIndex(p, Num(Least(Matches(p))))

\* two logs share the topic and the first of them is not the first log
C6_Witness ==
    \E p \in Procs :
        /\ BySignature(p)
        /\ Cardinality(Matches(p)) = 2 /\ Least(Matches(p)) = 1
        /\ SubmittedLogIndex(p, Num(1))

\* no log matches: the call threw and sent nothing
C6_WitnessNotFound ==
    \E p \in Procs :
        /\ BySignature(p) /\ Matches(p) = {} /\ Len(args[p].receipt.logs) = 2
        /\ ThrewMsg(p, "Event not found in transaction receipt")

----------------------------------------------------------------------------
(* C7 *)

\* C7: a polymerProof that reaches the selector checks (it has a receipt and a
\* chain id) throws "eventSignature or logIndex is required" when neither selector
\* is given, and "logIndex must be non-negative" when logIndex is negative, with
\* or without an eventSignature; neither call sends a request.  (Without a
\* receipt or a chain id the call has thrown before these checks, and has sent
\* nothing either.)
C7_InvalidArgument ==
    \A p \in Procs :
        LET neither == ~Has(args[p], "eventSignature") /\ ~Has(args[p], "logIndex")
            negative == Has(args[p], "logIndex") /\ args[p].logIndex.floor < 0
        IN  /\ (op[p] = "polymerProof" /\ (neither \/ negative)) =>
                  Threw(p) /\ trace[p] = <<>>
            /\ (Validating(p) /\ neither) => outcome[p].error = ErrSelector
            /\ (Validating(p) /\ negative) => outcome[p].error = ErrNegative

\* a negative logIndex given together with a signature that is in the receipt
C7_Witness ==
    \E p \in Procs :
        /\ Validating(p)
        /\ Has(args[p], "logIndex") /\ args[p].logIndex = Num(-1)
        /\ Has(args[p], "eventSignature") /\ args[p].eventSignature # ""
        /\ Matches(p) # {}
        /\ Threw(p) /\ outcome[p].error = ErrNegative

\* neither selector given
C7_WitnessNeither ==
    \E p \in Procs :
        /\ Validating(p)
        /\ ~Has(args[p], "eventSignature") /\ ~Has(args[p], "logIndex")
        /\ Threw(p) /\ outcome[p].error = ErrSelector

----------------------------------------------------------------------------
(* C8 *)

\* C8: a polymerProof given a logIndex that is a number but not an integer throws
\* one of the two argument errors and sends no proof request.
C8_NonIntegerRejected ==
    \A p \in Procs :
        (Validating(p) /\ Has(args[p], "logIndex") /\ ~IsInteger(args[p].logIndex)) =>
            /\ Threw(p) /\ outcome[p].error \in {ErrSelector, ErrNegative}
            /\ trace[p] = <<>>

----------------------------------------------------------------------------
(* C9 *)

\* call p gives a logIndex that is a non-negative integer
ByLogIndex(p) ==
    /\ Validating(p)
    /\ Has(args[p], "logIndex")
    /\ IsInteger(args[p].logIndex) /\ args[p].logIndex.floor >= 0

\* C9: a non-negative integer logIndex is submitted unchanged and takes precedence
\* over an eventSignature: the logs are not scanned, the submitted log index is the
\* given one whatever the signature, and "Event ... not found" is never thrown.
C9_LogIndexPrecedence ==
    \A p \in Procs :
        ByLogIndex(p) =>
            /\ SubmittedLogIndex(p, args[p].logIndex)
            /\ ~scanned[p]
            /\ ~ThrewMsg(p, "Event not found in transaction receipt")

\* both selectors given, and the signature alone would have selected another log
C9_Witness ==
    \E p \in Procs :
        /\ ByLogIndex(p)
        /\ Has(args[p], "eventSignature") /\ args[p].eventSignature # ""
        /\ Matches(p) # {} /\ Least(Matches(p)) # args[p].logIndex.floor
        /\ SubmittedLogIndex(p, args[p].logIndex)

\* both selectors given, and the signature is not in the receipt
C9_WitnessAbsentEvent ==
    \E p \in Procs :
        /\ ByLogIndex(p)
        /\ Has(args[p], "eventSignature") /\ args[p].eventSignature # ""
        /\ Matches(p) = {}
        /\ SubmittedLogIndex(p, args[p].logIndex)

----------------------------------------------------------------------------
(* C10 *)

\* C10: a call of requestProof makes exactly one round trip and never retries:
\* polymer.requestProof sends its one request when called and nothing after the
\* answer, whatever the answer; polymerProof sends one proof request at most.
C10_OneRoundTrip ==
    \A p \in Procs :
        /\ Submits(p) <= 1
        /\ (op[p] = "requestProof") =>
              /\ trace[p] = <<requestProofParams(args[p].srcChainId, args[p].srcBlockNumber,
                                                 args[p].txIndex, args[p].logIndex)>>
              /\ pc[p] \in {"awaitSubmit", "done"}
        /\ (op[p] = "polymerProof" /\ pc[p] \notin {"idle", "awaitSubmit"} /\ trace[p] # <<>>) =>
              /\ Submits(p) = 1
              /\ trace[p][1].method = "log_requestProof"

\* a polymer.requestProof whose round trip returned a non-success HTTP status
C10_Witness ==
    \E p \in Procs :
        /\ op[p] = "requestProof" /\ pc[p] = "done"
        /\ ~submitResp[p].ok
        /\ Threw(p) /\ Submits(p) = 1

\* ... an error envelope, and a job identifier
C10_WitnessEnvelope ==
    \E p \in Procs :
        /\ op[p] = "requestProof" /\ pc[p] = "done"
        /\ submitResp[p].ok /\ Has(submitResp[p].data, "error")
        /\ Threw(p) /\ Submits(p) = 1

----------------------------------------------------------------------------
(* C11 *)

\* the proof request of call p has been answered
SubmitAnswered(p) == Submits(p) = 1 /\ pc[p] # "awaitSubmit"

\* the body of the answer reports an error: it has an error member that is truthy
\* (a falsy one, as in "error": null beside a result, reports none)
ErrorEnvelope(response) ==
    response.ok /\ Has(response.data, "error") /\ response.data.error # ""

\* C11: requestProof throws "HTTP error" with the status code when the answer has
\* a non-success HTTP status, "Polymer API error" with the error payload when the
\* body carries an error envelope, and otherwise returns the result member of the
\* body unchanged; an answer that reported an error never yields a job identifier,
\* even with a result beside the error, and a polymerProof whose submit failed
\* throws the same error.
C11_SubmitFailsOrReturnsResult ==
    \A p \in Procs :
        (SubmitAnswered(p) /\ op[p] \in {"requestProof", "polymerProof"}) =>
            /\ ~submitResp[p].ok => outcome[p] = Throw(ErrHttp(submitResp[p].status))
            /\ ErrorEnvelope(submitResp[p]) => outcome[p] = Throw(ErrApi(submitResp[p].data.error))
            /\ (op[p] = "requestProof" /\ submitResp[p].ok /\ ~ErrorEnvelope(submitResp[p])) =>
                  outcome[p] = Return(submitResp[p].data.result)

\* an error envelope that also carries a result: the call threw the payload
C11_Witness ==
    \E p \in Procs :
        /\ SubmitAnswered(p) /\ op[p] = "requestProof"
        /\ ErrorEnvelope(submitResp[p]) /\ Has(submitResp[p].data, "result")
        /\ outcome[p] = Throw(ErrApi("rpc-error"))

\* a successful answer: the call returned its result
C11_WitnessSuccess ==
    \E p \in Procs :
        /\ SubmitAnswered(p) /\ op[p] = "requestProof"
        /\ submitResp[p] = HttpOk([result |-> "job-1"])
        /\ outcome[p] = Return("job-1")

----------------------------------------------------------------------------
(* C12 *)

\* the plain number n, as JSON carries it
PlainNumber(n) == [type |-> "number", val |-> n]

\* the log index polymerProof resolves for call p: the given one, or the first
\* match of the signature
ResolvedLogIndex(p) ==
    IF Has(args[p], "logIndex") THEN args[p].logIndex ELSE Num(Least(Matches(p)))

C12_WitnessRequestProof ==
    \E p \in Procs :
        /\ op[p] = "requestProof" /\ trace[p] # <<>>
        /\ args[p].srcBlockNumber.type = "bigint"
        /\ trace[p][1].params[2] = PlainNumber(12345)

----------------------------------------------------------------------------
(* C13 *)

\* call p is a polymer.queryProofStatus or a polymer.wait
OnHandle(p) == op[p] \in {"queryProofStatus", "wait"}

\* C13: polymer.queryProofStatus and polymer.wait called with an empty job handle
\* throw "Job ID is required" at once and send nothing; with a non-empty handle
\* they never throw it.
C13_EmptyHandle ==
    \A p \in Procs :
        OnHandle(p) =>
            IF args[p].jobId = ""
            THEN /\ pc[p] = "done" /\ outcome[p] = Throw(ErrJobId)
                 /\ trace[p] = <<>>
            ELSE ~ThrewMsg(p, "Job ID is required")

\* polymer.wait("") with a poll policy of its own
C13_Witness ==
    \E p \in Procs :
        /\ op[p] = "wait" /\ args[p].jobId = "" /\ Has(args[p], "maxAttempts")
        /\ outcome[p] = Throw(ErrJobId) /\ Queries(p) = 0

\* polymer.queryProofStatus("")
C13_WitnessQuery ==
    \E p \in Procs :
        /\ op[p] = "queryProofStatus" /\ args[p].jobId = ""
        /\ outcome[p] = Throw(ErrJobId) /\ Queries(p) = 0

----------------------------------------------------------------------------
(* C14 *)

\* call p is a polymer.queryProofStatus on a non-empty handle
StatusQuery(p) == op[p] = "queryProofStatus" /\ args[p].jobId # ""

\* the answer to call p carried a status object
StatusReported(p) == pc[p] = "done" /\ resp[p].ok /\ ~Has(resp[p].data, "error")

\* the round trips of all calls together
RECURSIVE TotalQueries(_)
TotalQueries(ps) ==
    IF ps = {} THEN 0
    ELSE LET p == CHOOSE q \in ps : TRUE IN Queries(p) + TotalQueries(ps \ {p})

\* C14: every polymer.queryProofStatus on a handle sends exactly one status query
\* for that handle, so n calls make n round trips, and each call returns the status
\* object its own round trip was answered with, whatever another call on the same
\* handle returned.
C14_OneQueryPerCallNoCache ==
    /\ \A p \in Procs :
          StatusQuery(p) =>
              /\ trace[p] = <<queryProofParams(args[p].jobId)>>
              /\ StatusReported(p) => outcome[p] = Return(resp[p].data.result)
    /\ TotalQueries(Procs) = Cardinality({p \in Procs : StatusQuery(p)})

\* two calls on the same handle, one round trip each: one returned complete, the
\* other pending
C14_Witness ==
    \E p, q \in Procs :
        /\ p # q /\ StatusQuery(p) /\ StatusQuery(q) /\ args[p].jobId = args[q].jobId
        /\ StatusReported(p) /\ outcome[p].value.status = "complete"
        /\ StatusReported(q) /\ outcome[q].value.status = "pending"
        /\ TotalQueries(Procs) = 2

----------------------------------------------------------------------------
(* C15 *)

\* call p is a polymerProof in job-only mode
JobOnly(p) ==
    op[p] = "polymerProof" /\ Has(args[p], "returnJob") /\ args[p].returnJob

\* C15: with returnJob = true, polymerProof never sends a status query and never
\* schedules a delay; once its one proof request is answered the call has ended,
\* and when the answer is a success it has returned {jobId, receipt} with the
\* jobId of that answer and the receipt the caller gave.
C15_JobOnly ==
    \A p \in Procs :
        JobOnly(p) =>
            /\ Queries(p) = 0 /\ Delays(p) = 0 /\ Submits(p) <= 1
            /\ (Submits(p) = 1 /\ pc[p] # "awaitSubmit") =>
                  /\ pc[p] = "done"
                  /\ IF submitResp[p].ok /\ ~ErrorEnvelope(submitResp[p])
                     THEN outcome[p] = Return([jobId |-> submitResp[p].data.result,
                                               receipt |-> args[p].receipt])
                     ELSE Threw(p)

\* a job-only call that returned the handle and the receipt after one round trip
C15_Witness ==
    \E p \in Procs :
        /\ JobOnly(p) /\ Returned(p)
        /\ outcome[p].value.jobId = "job-1"
        /\ outcome[p].value.receipt = args[p].receipt
        /\ trace[p] = <<requestProofParams(chain.id, args[p].receipt.blockNumber,
                                           args[p].receipt.transactionIndex, Num(0))>>

----------------------------------------------------------------------------
(* C16 *)

\* call p is a polymerProof, not in job-only mode, that has entered the poll loop
ProofPolling(p) == op[p] = "polymerProof" /\ ~JobOnly(p) /\ Polled(p)

\* the field of the poll policy call p should run with: the per-call one when the
\* caller gave it, and the configured one otherwise
PolicyOf(p, field) ==
    IF Has(args[p], field) THEN args[p][field] ELSE instance.config[field]

\* the delays call p has scheduled so far
Timeouts(p) == {i \in 1..Len(trace[p]) : trace[p][i].method = "setTimeout"}

\* C16: outside job-only mode polymerProof runs the poll loop with the per-call
\* maxAttempts and interval when the caller gave them and with the configured ones
\* otherwise: the loop's bound and every delay it schedules are those values; and
\* the configured values are 20 and 3000 when the configuration does not set them.
C16_PollPolicy ==
    /\ \A p \in Procs :
          ProofPolling(p) =>
              /\ frame[p].maxAttempts = PolicyOf(p, "maxAttempts")
              /\ frame[p].interval = PolicyOf(p, "interval")
              /\ \A i \in Timeouts(p) : trace[p][i].ms = PolicyOf(p, "interval")
              /\ Queries(p) <= PolicyOf(p, "maxAttempts") \/ Queries(p) = 0
    /\ \A c \in UserConfigs :
          ~polymer(c).threw =>
              /\ polymer(c).config.maxAttempts =
                     (IF Has(c, "maxAttempts") THEN c.maxAttempts ELSE 20)
              /\ polymer(c).config.interval =
                     (IF Has(c, "interval") THEN c.interval ELSE 3000)

\* nothing set per call nor in the configuration: the loop ran its 20 attempts,
\* 3000 ms apart
C16_Witness ==
    \E p \in Procs :
        /\ ProofPolling(p) /\ pc[p] = "done"
        /\ ~Has(args[p], "maxAttempts") /\ ~Has(args[p], "interval")
        /\ Queries(p) = 20 /\ Delays(p) = 19
        /\ \A i \in Timeouts(p) : trace[p][i].ms = 3000

\* per-call values given, over a configuration that sets others
C16_WitnessPerCall ==
    \E p \in Procs :
        /\ ProofPolling(p) /\ pc[p] = "done"
        /\ Has(args[p], "maxAttempts") /\ Has(args[p], "interval")
        /\ instance.config.maxAttempts = 2 /\ args[p].maxAttempts = 3
        /\ instance.config.interval = 5 /\ args[p].interval = 7
        /\ Queries(p) = 3 /\ \A i \in Timeouts(p) : trace[p][i].ms = 7

\* a per-call 0 is a supplied value too
C16_WitnessZero ==
    \E p \in Procs :
        /\ ProofPolling(p) /\ pc[p] = "done"
        /\ Has(args[p], "maxAttempts") /\ args[p].maxAttempts = 0
        /\ frame[p].maxAttempts = 0

----------------------------------------------------------------------------
(* C17 *)

\* call p is a polymerProof on a client that has no chain
NoChain(p) == op[p] = "polymerProof" /\ ~Has(chain, "id")

\* C17: a polymerProof on a client without a chain throws at once and sends
\* nothing, and what it throws is "Chain ID not found in client" whenever the
\* call has a receipt (without one, the receipt check, which comes first, throws).
C17_MissingChain ==
    \A p \in Procs :
        NoChain(p) =>
            /\ pc[p] = "done" /\ Threw(p)
            /\ trace[p] = <<>>
            /\ Has(args[p], "receipt") =>
                  outcome[p].error = [msg |-> "Chain ID not found in client"]

\* no chain, and options that are otherwise valid
C17_Witness ==
    \E p \in Procs :
        /\ NoChain(p)
        /\ Has(args[p], "receipt") /\ Has(args[p], "logIndex")
        /\ ThrewMsg(p, "Chain ID not found in client") /\ Submits(p) = 0

----------------------------------------------------------------------------
(* C18 *)

\* the configuration gives no apiKey, or an empty one
NoApiKey(config) == ~Has(config, "apiKey") \/ config.apiKey = ""

\* C18: polymer(config) throws "Polymer API key is required" exactly when the
\* apiKey is missing or empty; then there is no instance, so no operation is ever
\* called and nothing is sent; every instance that exists holds a non-empty key,
\* and no call of an operation throws the key error.
C18_KeyCheckedAtConstruction ==
    /\ \A c \in UserConfigs :
          /\ polymer(c).threw <=> NoApiKey(c)
          /\ polymer(c).threw => polymer(c).error = [msg |-> "Polymer API key is required"]
    /\ instance.threw =>
          \A p \in Procs : pc[p] = "idle" /\ trace[p] = <<>> /\ outcome[p] = Pending
    /\ ~instance.threw => ~NoApiKey(instance.config)
    /\ \A p \in Procs : ~ThrewMsg(p, "Polymer API key is required")

\* construction threw: the operations cannot be called
C18_Witness ==
    /\ instance.threw /\ instance.error.msg = "Polymer API key is required"
    /\ \A p \in Procs : pc[p] = "idle"

\* an instance with a key, one of whose operations sent a request
C18_WitnessReady ==
    /\ ~instance.threw /\ instance.config.apiKey = "pk-test"
    /\ \E p \in Procs : trace[p] # <<>>

----------------------------------------------------------------------------
(* C19 *)

\* what the poll loop of call p does when run alone, as a function of its own
\* maxAttempts, the number of non-terminal answers it got and its latest answer:
\* the attempt counter, the queries sent, the delays scheduled and the outcome
Alone(p) ==
    LET m == frame[p].maxAttempts
        n == nNonTerminal[p]
    IN  /\ \A i \in 1..Len(trace[p]) :
              trace[p][i].method = "log_queryProof" =>
                  trace[p][i].params = <<frame[p].jobId>>
        /\ pc[p] = "awaitQuery" =>
              /\ frame[p].attempt = n + 1 /\ n + 1 <= m
              /\ Queries(p) = n + 1 /\ Delays(p) = n
        /\ pc[p] = "delaying" =>
              /\ frame[p].attempt = n /\ n < m
              /\ Queries(p) = n /\ Delays(p) = n
        /\ pc[p] = "done" =>
              IF m <= 0
              THEN Queries(p) = 0 /\ Delays(p) = 0 /\ outcome[p] = Throw(ErrTimedOut(m))
              ELSE IF QueryFailed(p)
              THEN /\ frame[p].attempt = n + 1 /\ Queries(p) = n + 1 /\ Delays(p) = n
                   /\ outcome[p] = fetchResult(resp[p])
              ELSE IF AnsweredWith(p, {"complete"})
              THEN /\ frame[p].attempt = n + 1 /\ Queries(p) = n + 1 /\ Delays(p) = n
                   /\ outcome[p] = Return(resp[p].data.result)
              ELSE IF AnsweredWith(p, {"error"})
              THEN /\ frame[p].attempt = n + 1 /\ Queries(p) = n + 1 /\ Delays(p) = n
                   /\ ThrewMsg(p, "Proof generation failed")
              ELSE /\ n = m /\ Queries(p) = m /\ Delays(p) = m - 1
                   /\ outcome[p] = Throw(ErrTimedOut(m))

\* C19: with two polymer.wait calls on distinct handles in progress at once, under
\* every interleaving of their queries and delays, each call polls its own handle
\* with its own maxAttempts, and its attempt counter, its queries, its delays and
\* its outcome are those of the loop run alone on the answers that call received.
C19_NoInterference ==
    \A p \in Procs :
        op[p] = "wait" =>
            /\ frame[p].jobId = args[p].jobId
            /\ frame[p].maxAttempts = args[p].maxAttempts
            /\ Alone(p)

\* both polls in progress on distinct handles, at different attempts, then ended
\* differently: one timed out after 1 attempt, the other completed at its third
C19_Witness ==
    \E p, q \in Procs :
        /\ op[p] = "wait" /\ op[q] = "wait" /\ args[p].jobId # args[q].jobId
        /\ frame[p].maxAttempts = 1 /\ ThrewMsg(p, "Proof generation timed out after")
        /\ Queries(p) = 1
        /\ frame[q].maxAttempts = 3 /\ AnsweredWith(q, {"complete"}) /\ Returned(q)
        /\ Queries(q) = 3

\* the two loops are in flight at the same time
C19_WitnessOverlap ==
    \E p, q \in Procs :
        /\ op[p] = "wait" /\ op[q] = "wait" /\ args[p].jobId # args[q].jobId
        /\ pc[p] = "delaying" /\ frame[p].attempt = 2
        /\ pc[q] = "awaitQuery" /\ frame[q].attempt = 1

----------------------------------------------------------------------------
(* C20 *)

\* C20: run on the same arguments and given the same answers, a call with
\* debug = true and the same call with debug = false are always at the same
\* point, have sent the same sequence of requests, scheduled the same delays and
\* ended with the same result or error; only the console differs, and the run
\* without debug writes nothing to it.
C20_LoggingSideChannel ==
    /\ pc[1] = pc[2]
    /\ trace[1] = trace[2]
    /\ Delays(1) = Delays(2)
    /\ outcome[1] = outcome[2]
    /\ frame[1] = frame[2]
    /\ console[1] = 0

\* a polymerProof that polled twice and returned: the run with debug logged, the
\* run without did not, and both sent the same requests and returned the same
C20_Witness ==
    /\ op[2] = "polymerProof" /\ Returned(2) /\ Queries(2) = 2 /\ Delays(2) = 1
    /\ console[2] > 0 /\ console[1] = 0
    /\ trace[1] = trace[2] /\ outcome[1] = outcome[2]

\* a polymer.wait whose status query failed: both runs threw the same error
C20_WitnessError ==
    /\ op[2] = "wait" /\ Threw(2) /\ QueryFailed(2)
    /\ console[2] > 0 /\ console[1] = 0
    /\ outcome[1] = outcome[2]

----------------------------------------------------------------------------
(* C21 *)

\* C21: two runs of the poll loop on the same arguments, whose answer sequences
\* differ only in pending being replaced by generating or the reverse, are always
\* at the same point and have sent the same queries, scheduled the same delays
\* and ended with the same outcome.
C21_NonTerminalAlike ==
    /\ pc[1] = pc[2]
    /\ trace[1] = trace[2]
    /\ Queries(1) = Queries(2) /\ Delays(1) = Delays(2)
    /\ frame[1] = frame[2]
    /\ outcome[1] = outcome[2]

\* one run was last told pending and the other generating, after an earlier
\* non-terminal answer each, and both timed out after the same queries and delays
C21_Witness ==
    /\ Polled(1) /\ Polled(2)
    /\ AnsweredWith(1, {"pending"}) /\ AnsweredWith(2, {"generating"})
    /\ nNonTerminal[1] = 2 /\ Queries(1) = 2 /\ Queries(2) = 2 /\ Delays(2) = 1
    /\ ThrewMsg(1, "Proof generation timed out after")
    /\ outcome[1] = outcome[2]

\* the two runs between attempts, last told different non-terminal statuses
C21_WitnessDelaying ==
    /\ pc[1] = "delaying" /\ pc[2] = "delaying"
    /\ resp[1] # resp[2]

----------------------------------------------------------------------------
(* C22 *)

\* the poll loop of call p, started with maxAttempts >= 1, has the answer to its
\* last allowed status query
LastAttemptAnswered(p) ==
    /\ Polled(p) /\ frame[p].maxAttempts >= 1
    /\ Answered(p) /\ Queries(p) = frame[p].maxAttempts

\* C22: for maxAttempts >= 1, when the maxAttempts-th status query is answered
\* complete wait returns that status, when it is answered error wait throws
\* "Proof generation failed", and wait throws "Proof generation timed out" only
\* when the maxAttempts-th query was answered with a non-terminal status.
C22_TerminalBeatsTimeout ==
    \A p \in Procs :
        /\ LastAttemptAnswered(p) =>
              /\ AnsweredWith(p, {"complete"}) => outcome[p] = Return(resp[p].data.result)
              /\ AnsweredWith(p, {"error"}) => ThrewMsg(p, "Proof generation failed")
        /\ (Polled(p) /\ frame[p].maxAttempts >= 1
                /\ ThrewMsg(p, "Proof generation timed out after")) =>
              /\ LastAttemptAnswered(p)
              /\ AnsweredWith(p, {"pending", "generating"})

\* complete arrives on the third of three attempts
C22_Witness ==
    \E p \in Procs :
        /\ LastAttemptAnswered(p) /\ frame[p].maxAttempts = 3 /\ nNonTerminal[p] = 2
        /\ AnsweredWith(p, {"complete"}) /\ Returned(p)

\* error arrives on the last attempt
C22_WitnessError ==
    \E p \in Procs :
        /\ LastAttemptAnswered(p) /\ frame[p].maxAttempts = 2 /\ nNonTerminal[p] = 1
        /\ AnsweredWith(p, {"error"}) /\ ThrewMsg(p, "Proof generation failed")

----------------------------------------------------------------------------
(* C23 *)

\* C23: when the k-th status query of the poll loop fails, with a non-success
\* HTTP status or an error envelope, wait throws that failure at once: "HTTP
\* error" with the status code or "Polymer API error" with the payload, after
\* exactly k queries and k-1 delays, and it sends and schedules nothing more,
\* whatever attempts remain.
C23_QueryFailureNotRetried ==
    \A p \in Procs :
        (Polled(p) /\ QueryFailed(p)) =>
            /\ pc[p] = "done"
            /\ ~resp[p].ok => outcome[p] = Throw(ErrHttp(resp[p].status))
            /\ resp[p].ok => outcome[p] = Throw(ErrApi(resp[p].data.error))
            /\ Queries(p) = nNonTerminal[p] + 1
            /\ Delays(p) = nNonTerminal[p]
            /\ trace[p][Len(trace[p])].method = "log_queryProof"

\* the second of three allowed queries came back with HTTP 500
C23_Witness ==
    \E p \in Procs :
        /\ Polled(p) /\ QueryFailed(p) /\ ~resp[p].ok
        /\ frame[p].maxAttempts = 3 /\ Queries(p) = 2 /\ Delays(p) = 1
        /\ ThrewMsg(p, "HTTP error! status")

\* the first of the default 20 queries came back with an error envelope
C23_WitnessEnvelope ==
    \E p \in Procs :
        /\ Polled(p) /\ QueryFailed(p) /\ resp[p].ok
        /\ frame[p].maxAttempts = 20 /\ Queries(p) = 1 /\ Delays(p) = 0
        /\ ThrewMsg(p, "Polymer API error")

----------------------------------------------------------------------------
(* C24 *)

\* what the poll loop of call p has issued so far: its trace, without the proof
\* request that precedes the loop in polymerProof
PollTrace(p) == IF op[p] = "polymerProof" THEN Tail(trace[p]) ELSE trace[p]

\* C24: in every run of the poll loop the first thing issued is a status query;
\* every delay comes right after a query, which was answered with a non-terminal
\* status, and right before another query, or is still pending; a finished loop
\* does not end on a delay; and every delay is of the interval the loop holds,
\* which is the same for all of them.
C24_DelaysBetweenAttempts ==
    \A p \in Procs :
        Polled(p) =>
            LET t == PollTrace(p)
            IN  /\ t # <<>> => t[1].method = "log_queryProof"
                /\ \A i \in 1..Len(t) :
                      t[i].method = "setTimeout" =>
                          /\ i > 1 /\ t[i - 1].method = "log_queryProof"
                          /\ i < Len(t) => t[i + 1].method = "log_queryProof"
                          /\ i = Len(t) =>
                                pc[p] = "delaying" /\ AnsweredWith(p, {"pending", "generating"})
                          /\ t[i].ms = frame[p].interval
                /\ \A i \in 1..(Len(t) - 1) :
                      t[i].method = "log_queryProof" => t[i + 1].method = "setTimeout"
                /\ Delays(p) <= nNonTerminal[p]
                /\ pc[p] = "delaying" => t[Len(t)].method = "setTimeout"

\* three attempts 7 ms apart: query, delay, query, delay, query
C24_Witness ==
    \E p \in Procs :
        /\ Polled(p) /\ pc[p] = "done"
        /\ PollTrace(p) = <<queryProofParams("job-1"), setTimeout(7), queryProofParams("job-1"),
                            setTimeout(7), queryProofParams("job-1")>>

----------------------------------------------------------------------------
(* C25 *)

\* the arguments of call p pass validation and log resolution: a receipt, a chain
\* id, and a logIndex that is not negative or else a signature found in the logs
ResolutionSucceeds(p) ==
    /\ Validating(p)
    /\ IF Has(args[p], "logIndex") THEN args[p].logIndex.floor >= 0
       ELSE BySignature(p) /\ Matches(p) # {}

\* the proof request of call p was answered with a success
SubmitSucceeded(p) ==
    /\ SubmitAnswered(p)
    /\ submitResp[p].ok /\ ~ErrorEnvelope(submitResp[p])

\* C25: polymerProof sends a proof request only when validation and log
\* resolution succeeded, and then as the first thing it sends and only once; it
\* sends a status query only after that request was answered with a success, and
\* every status query carries the job identifier of that answer; when the request
\* fails the call throws that failure having sent no status query.
C25_ResolveSubmitPoll ==
    \A p \in Procs :
        op[p] = "polymerProof" =>
            /\ trace[p] # <<>> =>
                  /\ ResolutionSucceeds(p)
                  /\ trace[p][1].method = "log_requestProof"
                  /\ Submits(p) = 1
            /\ ResolutionSucceeds(p) => Submits(p) = 1
            /\ Queries(p) >= 1 => SubmitSucceeded(p)
            /\ \A i \in 1..Len(trace[p]) :
                  trace[p][i].method = "log_queryProof" =>
                      trace[p][i].params = <<submitResp[p].data.result>>
            /\ (SubmitAnswered(p) /\ ~SubmitSucceeded(p)) =>
                  /\ ThrewMsg(p, "HTTP error! status") \/ ThrewMsg(p, "Polymer API error")
                  /\ Len(trace[p]) = 1

\* the log was found by signature, the submit returned job-1, two queries on job-1
C25_Witness ==
    \E p \in Procs :
        /\ op[p] = "polymerProof" /\ BySignature(p)
        /\ Matches(p) # {} /\ Least(Matches(p)) = 1
        /\ SubmitSucceeded(p) /\ submitResp[p].data.result = "job-1"
        /\ Queries(p) = 2 /\ Len(trace[p]) = 4
        /\ trace[p][2] = queryProofParams("job-1") /\ trace[p][4] = queryProofParams("job-1")

\* the submit failed: no status query
C25_WitnessSubmitFailed ==
    \E p \in Procs :
        /\ op[p] = "polymerProof" /\ ~Has(args[p], "returnJob")
        /\ SubmitAnswered(p) /\ ~submitResp[p].ok
        /\ ThrewMsg(p, "HTTP error! status") /\ Queries(p) = 0

----------------------------------------------------------------------------
(* C26 *)

\* C26: a polymer.wait given maxAttempts >= 1 runs the poll loop with that bound,
\* and given interval >= 0, 0 included, it runs the loop with that interval and
\* schedules every delay with it, as polymerProof does with its per-call values.
C26_WaitUsesExplicitPolicy ==
    \A p \in Procs :
        (op[p] = "wait" /\ Polled(p)) =>
            /\ (Has(args[p], "maxAttempts") /\ args[p].maxAttempts >= 1) =>
                  frame[p].maxAttempts = args[p].maxAttempts
            /\ (Has(args[p], "interval") /\ args[p].interval >= 0) =>
                  /\ frame[p].interval = args[p].interval
                  /\ \A i \in Timeouts(p) : trace[p][i].ms = args[p].interval

----------------------------------------------------------------------------
(* C27 *)

\* C27: every status query that any call sends carries a non-empty job handle.
C27_QueriesCarryHandle ==
    \A p \in Procs :
        \A i \in 1..Len(trace[p]) :
            trace[p][i].method = "log_queryProof" => trace[p][i].params # <<"">>

----------------------------------------------------------------------------
(* C28 *)

\* C28: a poll loop that throws "Proof generation timed out" has sent at least
\* one status query, whatever maxAttempts it was started with.
C28_QueryBeforeTimeout ==
    \A p \in Procs :
        (Polled(p) /\ ThrewMsg(p, "Proof generation timed out after")) => Queries(p) >= 1

----------------------------------------------------------------------------
(* C29 *)

\* C29: every proof request that is sent, by polymerProof or by
\* polymer.requestProof, carries a chain id, a block number, a transaction index
\* and a log index that are all non-negative integers.
C29_CoordinatesNonNegativeIntegers ==
    \A p \in Procs :
        \A i \in 1..Len(trace[p]) :
            trace[p][i].method = "log_requestProof" =>
                LET params == trace[p][i].params
                IN  /\ params[1] >= 0
                    /\ params[2].val >= 0
                    /\ params[3] >= 0
                    /\ IsInteger(params[4]) /\ params[4].floor >= 0

----------------------------------------------------------------------------
(* C30 *)

\* C30: the log index of the proof request polymerProof sends addresses a log of
\* the receipt: it is at least 0 and less than the number of logs, whether found
\* by signature or given by the caller.
C30_LogIndexInReceipt ==
    \A p \in Procs :
        (op[p] = "polymerProof" /\ trace[p] # <<>>) =>
            LET logIndex == trace[p][1].params[4]
            IN  /\ logIndex.floor >= 0
                /\ logIndex.floor < Len(args[p].receipt.logs)

----------------------------------------------------------------------------
(* C31 *)

\* C31: polymerProof throws "Chain ID not found in client" only on a client that
\* supplies no chain id; with a chain id supplied, 0 included, the call is not
\* rejected for its chain and the proof request it sends carries that id as
\* srcChainId.
C31_ChainIdZeroAccepted ==
    \A p \in Procs :
        op[p] = "polymerProof" =>
            /\ ThrewMsg(p, "Chain ID not found in client") => ~Has(chain, "id")
            /\ (Has(chain, "id") /\ trace[p] # <<>>) =>
                  trace[p][1].params[1] = chain.id

====
